---- MODULE Spec2Model ----
(***************************************************************************)
(* Scoring and ranking engine of the supplier selection tool.              *)
(*                                                                         *)
(* Cell values of a table are modelled with their Python/pandas kind:      *)
(*   "num"  an exact rational n/d (d > 0, lowest terms)                    *)
(*   "nan"  a missing cell (pandas reads an empty CSV cell as NaN)         *)
(*   "str"  a non-numeric cell such as 'abc'                               *)
(*   "err"  an exception raised while evaluating an expression             *)
(* A row is a function from column names to cell values; a column that is  *)
(* not in the row's DOMAIN is an absent key.                               *)
(***************************************************************************)
EXTENDS Integers, Sequences, FiniteSets, TLC

VARIABLES
    pc,                \* position of the run
    row, score,        \* argument and result of a scoring function
    column, ascending, normalized,   \* argument and result of normalize_column
    sliders, weights,  \* the four buyer-priority sliders and the weights made of them
    df,                \* the loaded table, cleaned and scored
    scope,             \* filtered_df as it enters the ranking step
    filtered_df,       \* filtered_df as it leaves the ranking step
    ranking_criteria,  \* the selected ranking option
    error,             \* the exception that ended the run, or "none"
    uploaded,          \* the table read from the uploaded file
    returned,          \* the table scoring.calculate_scores returns
    current, alternative,      \* the two records of the scenario comparison
    impact_diff,               \* their five differences
    improvements, declines     \* the metrics listed under each heading, in order

vars == <<pc, row, score, column, ascending, normalized, sliders, weights,
          df, scope, filtered_df, ranking_criteria, error, uploaded, returned,
          current, alternative, impact_diff, improvements, declines>>

\* What the scenario tab and scoring.calculate_scores write
scenario_vars == <<returned, current, alternative, impact_diff, improvements, declines>>

\* Metric cells take the values level * top \div MaxLevel, level \in 0..MaxLevel.
MaxLevel == 2

-----------------------------------------------------------------------------
(* Cell values and Python arithmetic on them *)

Abs(x) == IF x < 0 THEN -x ELSE x

RECURSIVE GCD(_, _)
GCD(a, b) == IF b = 0 THEN a ELSE GCD(b, a % b)

Rat(n, d) ==
    LET g == GCD(Abs(n), Abs(d))
        s == IF d < 0 THEN -1 ELSE 1
    IN  [t |-> "num", n |-> (s * n) \div g, d |-> (s * d) \div g]

Num(n) == [t |-> "num", n |-> n, d |-> 1]
NaN == [t |-> "nan", n |-> 0, d |-> 1]
Str == [t |-> "str", n |-> 0, d |-> 1]
Err == [t |-> "err", n |-> 0, d |-> 1]

IsNum(a) == a.t = "num"

\* a (+|-|*) b on Python/numpy scalars: an operand that already raised, or a
\* str operand next to a number, raises; NaN propagates.
Arith(op, a, b) ==
    IF a.t = "err" \/ b.t = "err" \/ a.t = "str" \/ b.t = "str" THEN Err
    ELSE IF a.t = "nan" \/ b.t = "nan" THEN NaN
    ELSE CASE op = "+" -> Rat(a.n * b.d + b.n * a.d, a.d * b.d)
           [] op = "-" -> Rat(a.n * b.d - b.n * a.d, a.d * b.d)
           [] op = "*" -> Rat(a.n * b.n, a.d * b.d)

Add(a, b) == Arith("+", a, b)
Sub(a, b) == Arith("-", a, b)
Mul(a, b) == Arith("*", a, b)

\* a / b on Python floats: ZeroDivisionError on a zero divisor.
PyDiv(a, b) ==
    IF a.t = "err" \/ b.t = "err" \/ a.t = "str" \/ b.t = "str" THEN Err
    ELSE IF a.t = "nan" \/ b.t = "nan" THEN NaN
    ELSE IF b.n = 0 THEN Err
    ELSE Rat(a.n * b.d, a.d * b.n)

\* a > b as Python evaluates it on numbers: False when either side is NaN.
Gt(a, b) == IsNum(a) /\ IsNum(b) /\ a.n * b.d > b.n * a.d
Ge(a, b) == IsNum(a) /\ IsNum(b) /\ a.n * b.d >= b.n * a.d

\* max(a, b): the builtin keeps its first argument unless a later one compares
\* greater, so max(0, nan) is 0.
PyMax(a, b) ==
    IF a.t = "err" \/ b.t = "err" THEN Err
    ELSE IF Gt(b, a) THEN b ELSE a

\* row[key]: KeyError when the key is absent.
Get(r, key) == IF key \in DOMAIN r THEN r[key] ELSE Err

\* row.get(key, default)
RowGet(r, key, default) == IF key \in DOMAIN r THEN r[key] ELSE default

-----------------------------------------------------------------------------
(* Column names *)

MetricKeys ==
    {"carbon_footprint", "recycling_rate", "energy_efficiency",
     "water_usage", "waste_production"}

CertKeys == {"ISO_14001", "Fair_Trade", "Organic", "B_Corp", "Rainforest_Alliance"}

CommercialKeys == {"lead_time_days", "onboarding_cost_usd", "switching_cost_usd"}

-----------------------------------------------------------------------------
(* Scoring function of the app *)

\* The three clamped sub-scores
carbon_score(r) == PyMax(Num(0), Sub(Num(100), PyDiv(Get(r, "carbon_footprint"), Num(10))))
water_score(r) == PyMax(Num(0), Sub(Num(100), PyDiv(Get(r, "water_usage"), Num(100))))
waste_score(r) == PyMax(Num(0), Sub(Num(100), PyDiv(Get(r, "waste_production"), Num(5))))

calculate_sustainability_score_waste10(r) ==
    LET cs == PyMax(Num(0), Sub(Num(100), PyDiv(Get(r, "carbon_footprint"), Num(10))))
        ws == PyMax(Num(0), Sub(Num(100), PyDiv(Get(r, "water_usage"), Num(100))))
        ps == PyMax(Num(0), Sub(Num(100), PyDiv(Get(r, "waste_production"), Num(10))))
        certifications ==
            Mul(Add(Add(Add(Add(Add(Num(0), RowGet(r, "ISO_14001", Num(0))),
                                RowGet(r, "Fair_Trade", Num(0))),
                            RowGet(r, "Organic", Num(0))),
                        RowGet(r, "B_Corp", Num(0))),
                    RowGet(r, "Rainforest_Alliance", Num(0))),
                Num(5))
        result ==
            PyDiv(Add(Add(Add(Add(Add(cs, Get(r, "recycling_rate")),
                                  Get(r, "energy_efficiency")),
                              ws),
                          ps),
                      certifications),
                  Num(6))
    IN  IF result.t = "err" THEN Num(0) ELSE result

calculate_sustainability_score_unclamped(r) ==
    LET cs == Sub(Num(100), PyDiv(Get(r, "carbon_footprint"), Num(10)))
        ws == Sub(Num(100), PyDiv(Get(r, "water_usage"), Num(100)))
        ps == Sub(Num(100), PyDiv(Get(r, "waste_production"), Num(5)))
        certifications ==
            Mul(Add(Add(Add(Add(Add(Num(0), RowGet(r, "ISO_14001", Num(0))),
                                RowGet(r, "Fair_Trade", Num(0))),
                            RowGet(r, "Organic", Num(0))),
                        RowGet(r, "B_Corp", Num(0))),
                    RowGet(r, "Rainforest_Alliance", Num(0))),
                Num(5))
        result ==
            PyDiv(Add(Add(Add(Add(Add(cs, Get(r, "recycling_rate")),
                                  Get(r, "energy_efficiency")),
                              ws),
                          ps),
                      certifications),
                  Num(6))
    IN  IF result.t = "err" THEN Num(0) ELSE result

calculate_sustainability_score_div5(r) ==
    LET cs == PyMax(Num(0), Sub(Num(100), PyDiv(Get(r, "carbon_footprint"), Num(10))))
        ws == PyMax(Num(0), Sub(Num(100), PyDiv(Get(r, "water_usage"), Num(100))))
        ps == PyMax(Num(0), Sub(Num(100), PyDiv(Get(r, "waste_production"), Num(5))))
        certifications ==
            Mul(Add(Add(Add(Add(Add(Num(0), RowGet(r, "ISO_14001", Num(0))),
                                RowGet(r, "Fair_Trade", Num(0))),
                            RowGet(r, "Organic", Num(0))),
                        RowGet(r, "B_Corp", Num(0))),
                    RowGet(r, "Rainforest_Alliance", Num(0))),
                Num(5))
        result ==
            PyDiv(Add(Add(Add(Add(Add(cs, Get(r, "recycling_rate")),
                                  Get(r, "energy_efficiency")),
                              ws),
                          ps),
                      certifications),
                  Num(5))
    IN  IF result.t = "err" THEN Num(0) ELSE result

calculate_sustainability_score_rising_carbon(r) ==
    LET cs == PyMax(Num(0), PyDiv(Get(r, "carbon_footprint"), Num(10)))
        ws == PyMax(Num(0), Sub(Num(100), PyDiv(Get(r, "water_usage"), Num(100))))
        ps == PyMax(Num(0), Sub(Num(100), PyDiv(Get(r, "waste_production"), Num(5))))
        certifications ==
            Mul(Add(Add(Add(Add(Add(Num(0), RowGet(r, "ISO_14001", Num(0))),
                                RowGet(r, "Fair_Trade", Num(0))),
                            RowGet(r, "Organic", Num(0))),
                        RowGet(r, "B_Corp", Num(0))),
                    RowGet(r, "Rainforest_Alliance", Num(0))),
                Num(5))
        result ==
            PyDiv(Add(Add(Add(Add(Add(cs, Get(r, "recycling_rate")),
                                  Get(r, "energy_efficiency")),
                              ws),
                          ps),
                      certifications),
                  Num(6))
    IN  IF result.t = "err" THEN Num(0) ELSE result

calculate_sustainability_score(r) ==
    LET recycling_score == Get(r, "recycling_rate")
        energy_score == Get(r, "energy_efficiency")
        certifications ==
            Mul(Add(Add(Add(Add(Add(Num(0), RowGet(r, "ISO_14001", Num(0))),
                                RowGet(r, "Fair_Trade", Num(0))),
                            RowGet(r, "Organic", Num(0))),
                        RowGet(r, "B_Corp", Num(0))),
                    RowGet(r, "Rainforest_Alliance", Num(0))),
                Num(5))
        result ==
            PyDiv(Add(Add(Add(Add(Add(carbon_score(r), recycling_score), energy_score),
                              water_score(r)),
                          waste_score(r)),
                      certifications),
                  Num(6))
    IN  \* except Exception: return 0
        IF result.t = "err" THEN Num(0) ELSE result

-----------------------------------------------------------------------------
(* Min-max normalization *)

\* Series.min() / Series.max(): NaN cells are skipped; an all-NaN or empty
\* Series gives NaN.  A str cell stays a str (the subtraction then raises).
ColExtreme(col, wantMax) ==
    LET cells == {col[i] : i \in 1..Len(col)}
        nums == {c \in cells : IsNum(c)}
    IN  IF \E c \in cells : c.t = "err" THEN Err
        ELSE IF \E c \in cells : c.t = "str" THEN Str
        ELSE IF nums = {} THEN NaN
        ELSE CHOOSE m \in nums :
                \A c \in nums : IF wantMax THEN Ge(m, c) ELSE Ge(c, m)

\* Series / scalar: pandas gives NaN for 0/0 and raises nothing.  A non-zero
\* numerator over a zero range cannot occur: max = min makes every number of
\* the column equal to min.
SeriesDiv(a, b) ==
    IF a.t = "err" \/ b.t = "err" \/ a.t = "str" \/ b.t = "str" THEN Err
    ELSE IF a.t = "nan" \/ b.t = "nan" THEN NaN
    ELSE CASE b.n = 0 /\ a.n = 0 -> NaN
           [] b.n # 0 -> Rat(a.n * b.d, a.d * b.n)

normalize_column_flipped(col, asc) ==
    LET mn == ColExtreme(col, FALSE)
        mx == ColExtreme(col, TRUE)
        scaled(x) == SeriesDiv(Sub(x, mn), Sub(mx, mn))
    IN  [i \in 1..Len(col) |->
            IF asc THEN Sub(Num(1), scaled(col[i])) ELSE scaled(col[i])]

\* The result is the Series element by element; an exception raised by the
\* expression shows as "err" in every element.
normalize_column(col, asc) ==
    LET mn == ColExtreme(col, FALSE)
        mx == ColExtreme(col, TRUE)
        scaled(x) == SeriesDiv(Sub(x, mn), Sub(mx, mn))
    IN  [i \in 1..Len(col) |->
            IF asc THEN scaled(col[i]) ELSE Sub(Num(1), scaled(col[i]))]

\* Weighted score for buyer requirements
calculate_weighted_score(r, w) ==
    LET sustainability_norm == PyDiv(Get(r, "sustainability_score"), Num(100))
        lead_time_norm ==
            Sub(Num(1), normalize_column(<<Get(r, "lead_time_days")>>, TRUE)[1])
        onboarding_cost_norm ==
            Sub(Num(1), normalize_column(<<Get(r, "onboarding_cost_usd")>>, TRUE)[1])
        switching_cost_norm ==
            Sub(Num(1), normalize_column(<<Get(r, "switching_cost_usd")>>, TRUE)[1])
        weighted_score ==
            Add(Add(Add(Mul(w.sustainability, sustainability_norm),
                        Mul(w.lead_time, lead_time_norm)),
                    Mul(w.onboarding_cost, onboarding_cost_norm)),
                Mul(w.switching_cost, switching_cost_norm))
    IN  \* except Exception: return 0
        IF weighted_score.t = "err" THEN Num(0) ELSE weighted_score

-----------------------------------------------------------------------------
(* Buyer weights: sliders / 100, renormalized when they do not sum to 1 *)

buyer_weights_unnormalized(s) ==
    LET w == [i \in 1..4 |-> PyDiv(Num(s[i]), Num(100))]
    IN  [sustainability |-> w[1], lead_time |-> w[2],
         onboarding_cost |-> w[3], switching_cost |-> w[4]]

buyer_weights_total_of_three(s) ==
    LET w == [i \in 1..4 |-> PyDiv(Num(s[i]), Num(100))]
        total_weight == Add(Add(w[1], w[2]), w[3])
        n == IF total_weight # Num(1)
             THEN [i \in 1..4 |-> PyDiv(w[i], total_weight)]
             ELSE w
    IN  [sustainability |-> n[1], lead_time |-> n[2],
         onboarding_cost |-> n[3], switching_cost |-> n[4]]

buyer_weights(s) ==
    LET w == [i \in 1..4 |-> PyDiv(Num(s[i]), Num(100))]
        total_weight == Add(Add(Add(w[1], w[2]), w[3]), w[4])
        n == IF total_weight # Num(1)
             THEN [i \in 1..4 |-> PyDiv(w[i], total_weight)]
             ELSE w
    IN  [sustainability |-> n[1], lead_time |-> n[2],
         onboarding_cost |-> n[3], switching_cost |-> n[4]]

DefaultSliders == <<50, 25, 15, 10>>

NoWeights == [sustainability |-> NaN, lead_time |-> NaN,
              onboarding_cost |-> NaN, switching_cost |-> NaN]

WeightList(w) == <<w.sustainability, w.lead_time, w.onboarding_cost, w.switching_cost>>

-----------------------------------------------------------------------------
(* Inputs *)

\* Longest column handed to normalize_column, and its largest cell.
MaxColLen == 3
MaxCell == 3

\* The sliders take the values 5 * k, k \in 0..MaxSliderTick.
MaxSliderTick == 10

MetricTop(k) ==
    CASE k = "carbon_footprint" -> 1205
      [] k = "recycling_rate" -> 100
      [] k = "energy_efficiency" -> 100
      [] k = "water_usage" -> 12000
      [] k = "waste_production" -> 600

MetricCell(k, level) == Num((level * MetricTop(k)) \div MaxLevel)

\* How one cell of a record can be bad: a missing value, a non-numeric value,
\* or the column not being there at all.
BadKinds == {"nan", "str", "absent"}

Spoil(r, k, kind) ==
    CASE kind = "absent" -> [x \in (DOMAIN r) \ {k} |-> r[x]]
      [] kind = "nan" -> [r EXCEPT ![k] = NaN]
      [] kind = "str" -> [r EXCEPT ![k] = Str]

SupplierRecord(m, c) ==
    [k \in MetricKeys \cup CertKeys |->
        IF k \in MetricKeys THEN MetricCell(k, m[k]) ELSE Num(c[k])]

WeightedKeys == {"sustainability_score"} \cup CommercialKeys

ScoredRecord(v) ==
    [k \in WeightedKeys |->
        CASE k = "sustainability_score" -> Num((v[k] * 100) \div MaxLevel)
          [] k = "lead_time_days" -> Num(10 + 10 * v[k])
          [] k = "onboarding_cost_usd" -> Num(20000 + 1000 * v[k])
          [] k = "switching_cost_usd" -> Num(10000 + 1000 * v[k])]

Columns == UNION {[1..n -> {Num(v) : v \in 0..MaxCell}] : n \in 0..MaxColLen}

SliderValues == {5 * k : k \in 0..MaxSliderTick}

EmptyRow == [k \in {} |-> NaN]
EmptyTable == [cols |-> {}, rows |-> <<>>]

\* Before the scenario tab has run, and with no call of calculate_scores
NoScenario ==
    /\ returned = EmptyTable
    /\ current = EmptyRow /\ alternative = EmptyRow
    /\ impact_diff = EmptyRow
    /\ improvements = <<>> /\ declines = <<>>

-----------------------------------------------------------------------------
(* The scoring functions applied to one record *)

InitScore ==
    /\ NoScenario
    /\ column = <<>> /\ ascending = TRUE /\ normalized = <<>>
    /\ sliders = DefaultSliders
    /\ df = EmptyTable /\ scope = EmptyTable /\ filtered_df = EmptyTable
    /\ ranking_criteria = "" /\ error = "none" /\ uploaded = EmptyTable
    /\ score = NaN
    /\ \/ /\ pc = "record"
          /\ weights = NoWeights
          /\ \E m \in [MetricKeys -> 0..MaxLevel] :
                \/ \E c \in [CertKeys -> {0, 1}] : row = SupplierRecord(m, c)
                \/ \E k \in MetricKeys, kind \in BadKinds, flag \in {0, 1} :
                      row = Spoil(SupplierRecord(m, [x \in CertKeys |-> flag]), k, kind)
       \/ /\ pc = "scored_record"
          /\ \E s \in {DefaultSliders, <<50, 50, 50, 50>>} : weights = buyer_weights(s)
          /\ \E v \in [WeightedKeys -> 0..MaxLevel] :
                \/ row = ScoredRecord(v)
                \/ \E k \in WeightedKeys, kind \in BadKinds :
                      row = Spoil(ScoredRecord(v), k, kind)

ApplySustainabilityScore ==
    /\ UNCHANGED scenario_vars
    /\ pc = "record"
    /\ score' = calculate_sustainability_score(row)
    /\ pc' = "scored"
    /\ UNCHANGED <<row, column, ascending, normalized, sliders, weights,
                   df, scope, filtered_df, ranking_criteria, error, uploaded>>

ApplyWeightedScore ==
    /\ UNCHANGED scenario_vars
    /\ pc = "scored_record"
    /\ score' = calculate_weighted_score(row, weights)
    /\ pc' = "weighted"
    /\ UNCHANGED <<row, column, ascending, normalized, sliders, weights,
                   df, scope, filtered_df, ranking_criteria, error, uploaded>>

NextScore == ApplySustainabilityScore \/ ApplyWeightedScore

SpecScore == InitScore /\ [][NextScore]_vars

-----------------------------------------------------------------------------
(* normalize_column applied to one column *)

InitNorm ==
    /\ NoScenario
    /\ pc = "column"
    /\ row = EmptyRow /\ score = NaN
    /\ sliders = DefaultSliders /\ weights = NoWeights
    /\ df = EmptyTable /\ scope = EmptyTable /\ filtered_df = EmptyTable
    /\ ranking_criteria = "" /\ error = "none" /\ uploaded = EmptyTable
    /\ column \in Columns
    /\ ascending \in BOOLEAN
    /\ normalized = <<>>

ApplyNormalize ==
    /\ UNCHANGED scenario_vars
    /\ pc = "column"
    /\ normalized' = normalize_column(column, ascending)
    /\ pc' = "normalized"
    /\ UNCHANGED <<row, score, column, ascending, sliders, weights,
                   df, scope, filtered_df, ranking_criteria, error, uploaded>>

NextNorm == ApplyNormalize

SpecNorm == InitNorm /\ [][NextNorm]_vars

-----------------------------------------------------------------------------
(* The buyer-requirements step applied to one setting of the sliders *)

InitWeights ==
    /\ NoScenario
    /\ pc = "sliders"
    /\ row = EmptyRow /\ score = NaN
    /\ column = <<>> /\ ascending = TRUE /\ normalized = <<>>
    /\ df = EmptyTable /\ scope = EmptyTable /\ filtered_df = EmptyTable
    /\ ranking_criteria = "" /\ error = "none" /\ uploaded = EmptyTable
    /\ sliders \in [1..4 -> SliderValues]
    /\ weights = NoWeights

SetBuyerWeights ==
    /\ UNCHANGED scenario_vars
    /\ pc = "sliders"
    /\ LET w == buyer_weights(sliders)
       IN  /\ weights' = w
           /\ error' = IF \E i \in 1..4 : WeightList(w)[i].t = "err"
                       THEN "ZeroDivisionError" ELSE "none"
    /\ pc' = "weights_set"
    /\ UNCHANGED <<row, score, column, ascending, normalized, sliders,
                   df, scope, filtered_df, ranking_criteria, uploaded>>

NextWeights == SetBuyerWeights

SpecWeights == InitWeights /\ [][NextWeights]_vars

-----------------------------------------------------------------------------
(* Tables: the columns and the rows in order; every row has all the columns *)

\* Most rows of an uploaded table.
MaxRows == 2

SchemaColumns ==
    {"supplier_id", "name"} \cup MetricKeys \cup CertKeys
        \cup {"location", "industry"} \cup CommercialKeys

\* str.strip().str.lower().str.replace(' ', '_') on the column names a
\* supplier table uses; the other names of the schema are left as they are.
clean_name(c) ==
    CASE c = "ISO_14001" -> "iso_14001"
      [] c = "Fair_Trade" -> "fair_trade"
      [] c = "Organic" -> "organic"
      [] c = "B_Corp" -> "b_corp"
      [] c = "Rainforest_Alliance" -> "rainforest_alliance"
      [] c = "Supplier ID" -> "supplier_id"
      [] c = "Supplier Name" -> "supplier_name"
      [] OTHER -> c

\* df.rename(columns={'supplier_id': 'supplier_id', 'supplier_name': 'name'})
rename(c) == IF c = "supplier_name" THEN "name" ELSE c

\* df.columns = ...; df.rename(...): every column under its new name
CleanColumns(t) ==
    LET new(c) == rename(clean_name(c))
        cols == {new(c) : c \in t.cols}
        old(k) == CHOOSE c \in t.cols : new(c) = k
    IN  [cols |-> cols,
         rows |-> [i \in 1..Len(t.rows) |-> [k \in cols |-> t.rows[i][old(k)]]]]

\* df[name] = cells, one cell per row
WithColumn(t, name, cells) ==
    [cols |-> t.cols \cup {name},
     rows |-> [i \in 1..Len(t.rows) |->
                 [k \in t.cols \cup {name} |->
                     IF k = name THEN cells[i] ELSE t.rows[i][k]]]]

\* df.apply(calculate_sustainability_score, axis=1)
ApplyScore(t) == [i \in 1..Len(t.rows) |-> calculate_sustainability_score(t.rows[i])]

LowerCertKeys == <<"iso_14001", "fair_trade", "organic", "b_corp", "rainforest_alliance">>

\* for col in [...]: if col not in df.columns: df[col] = 0
RECURSIVE FillCertifications(_, _)
FillCertifications(t, i) ==
    IF i > Len(LowerCertKeys) THEN t
    ELSE FillCertifications(
            IF LowerCertKeys[i] \in t.cols THEN t
            ELSE WithColumn(t, LowerCertKeys[i], [j \in 1..Len(t.rows) |-> Num(0)]),
            i + 1)

\* main, from the loaded table to the scored one
ScoredTable(raw) ==
    LET filled == FillCertifications(CleanColumns(raw), 1)
    IN  WithColumn(filled, "sustainability_score", ApplyScore(filled))

Le(a, b) == IsNum(a) /\ IsNum(b) /\ a.n * b.d <= b.n * a.d

\* df[mask]: the rows whose mask is True, in order
RECURSIVE Masked(_, _)
Masked(rows, mask) ==
    IF rows = <<>> THEN <<>>
    ELSE (IF Head(mask) THEN <<Head(rows)>> ELSE <<>>) \o Masked(Tail(rows), Tail(mask))

Select(t, mask) == [cols |-> t.cols, rows |-> Masked(t.rows, mask)]

\* main: "Apply filters" and "Apply certification filters"; f holds the
\* sidebar's settings, cert_boxes being the checked certification boxes
ApplyFilters(d, f) ==
    LET first ==
            Select(d, [i \in 1..Len(d.rows) |->
                /\ d.rows[i]["industry"] \in f.industry_filter
                /\ d.rows[i]["location"] \in f.location_filter
                /\ Le(d.rows[i]["lead_time_days"], Num(f.max_lead_time))
                /\ Le(d.rows[i]["onboarding_cost_usd"], Num(f.max_onboarding_cost))
                /\ Le(d.rows[i]["switching_cost_usd"], Num(f.max_switching_cost))])
        cert_mask ==
            [i \in 1..Len(first.rows) |-> \E c \in f.cert_boxes : first.rows[i][c] = Num(1)]
    IN  IF f.cert_boxes # {} THEN Select(first, cert_mask) ELSE first

\* main: "Calculate weighted score based on buyer requirements"
WithWeightedScore(fd, w) ==
    IF fd.rows # <<>>
    THEN WithColumn(fd, "weighted_score",
                    [i \in 1..Len(fd.rows) |-> calculate_weighted_score(fd.rows[i], w)])
    ELSE fd

Perms(n) == {p \in [1..n -> 1..n] : \A i, j \in 1..n : i # j => p[i] # p[j]}

sort_values_dropna(t, by, asc) ==
    IF by \notin t.cols THEN {[error |-> "KeyError", table |-> t]}
    ELSE LET kept == Select(t, [i \in 1..Len(t.rows) |-> IsNum(t.rows[i][by])])
             n == Len(kept.rows)
             key(i) == kept.rows[i][by]
             InOrder(p) ==
                 \A i, j \in 1..n : i < j =>
                     IF asc THEN Le(key(p[i]), key(p[j])) ELSE Le(key(p[j]), key(p[i]))
         IN  {[error |-> "none",
               table |-> [cols |-> t.cols, rows |-> [i \in 1..n |-> kept.rows[p[i]]]]] :
                 p \in {q \in Perms(n) : InOrder(q)}}

\* The orders DataFrame.sort_values(by, ascending) may return.  kind is left at
\* its default, quicksort, which does not keep the relative order of equal
\* keys; NaN keys go last (na_position='last') in their original order.
sort_values(t, by, asc) ==
    IF by \notin t.cols THEN {[error |-> "KeyError", table |-> t]}
    ELSE LET n == Len(t.rows)
             key(i) == t.rows[i][by]
             InOrder(p) ==
                 \A i, j \in 1..n : i < j =>
                     IF IsNum(key(p[i])) /\ IsNum(key(p[j]))
                     THEN IF asc THEN Le(key(p[i]), key(p[j]))
                                 ELSE Le(key(p[j]), key(p[i]))
                     ELSE /\ ~IsNum(key(p[j]))
                          /\ ~IsNum(key(p[i])) => p[i] < p[j]
         IN  {[error |-> "none",
               table |-> [cols |-> t.cols, rows |-> [i \in 1..n |-> t.rows[p[i]]]]] :
                 p \in {q \in Perms(n) : InOrder(q)}}

\* The options of the "Rank suppliers by:" selectbox
RankingOptions ==
    {"Weighted Score (Buyer Requirements)", "Sustainability Score",
     "Carbon Footprint (Low to High)", "Recycling Rate (High to Low)",
     "Energy Efficiency (High to Low)", "Water Usage (Low to High)",
     "Waste Production (Low to High)", "Lead Time (Low to High)",
     "Onboarding Cost (Low to High)", "Switching Cost (Low to High)"}

\* main: "Apply ranking", the if/elif chain; no branch, no change
apply_ranking(fd, criteria) ==
    CASE criteria = "Weighted Score (Buyer Requirements)" -> sort_values(fd, "weighted_score", FALSE)
      [] criteria = "Sustainability Score" -> sort_values(fd, "sustainability_score", FALSE)
      [] criteria = "Carbon Footprint (Low to High)" -> sort_values(fd, "carbon_footprint", TRUE)
      [] criteria = "Recycling Rate (High to Low)" -> sort_values(fd, "recycling_rate", FALSE)
      [] criteria = "Energy Efficiency (High to Low)" -> sort_values(fd, "energy_efficiency", FALSE)
      [] criteria = "Water Usage (Low to High)" -> sort_values(fd, "water_usage", TRUE)
      [] criteria = "Waste Production (Low to High)" -> sort_values(fd, "waste_production", TRUE)
      [] criteria = "Lead Time (Low to High)" -> sort_values(fd, "lead_time_days", TRUE)
      [] criteria = "Onboarding Cost (Low to High)" -> sort_values(fd, "onboarding_cost_usd", TRUE)
      [] criteria = "Switching Cost (Low to High)" -> sort_values(fd, "switching_cost_usd", TRUE)
      [] OTHER -> {[error |-> "none", table |-> fd]}

-----------------------------------------------------------------------------
(* One run of the app: main from the uploaded table to the ranked scope *)

\* An uploaded row, with the header of the default data set.  v picks the
\* carbon footprint, the lead time and the ISO 14001 flag.
UploadedRow(i, v) ==
    [k \in SchemaColumns |->
        CASE k = "supplier_id" -> Num(i)
          [] k = "name" -> "Supplier " \o ToString(i)
          [] k = "carbon_footprint" -> Num(200 + 1000 * v.carbon)
          [] k = "recycling_rate" -> Num(50)
          [] k = "energy_efficiency" -> Num(60)
          [] k = "water_usage" -> Num(3000)
          [] k = "waste_production" -> Num(100)
          [] k = "ISO_14001" -> Num(v.iso)
          [] k = "location" -> "Asia"
          [] k = "industry" -> "Food"
          [] k = "lead_time_days" -> Num(10 + 10 * v.lead)
          [] k = "onboarding_cost_usd" -> Num(20000 + 5000 * v.lead)
          [] k = "switching_cost_usd" -> Num(10000)
          [] OTHER -> Num(0)]

RowChoices == [carbon : {0, 1}, lead : {0, 1}, iso : {0, 1}]

\* The uploaded tables: one row at least (the sidebar sliders need a minimum
\* and a maximum of each commercial column).
UploadedTables ==
    {[cols |-> SchemaColumns, rows |-> [i \in 1..Len(vs) |-> UploadedRow(i, vs[i])]] :
        vs \in UNION {[1..n -> RowChoices] : n \in 1..MaxRows}}

SliderSettings == {DefaultSliders, <<50, 50, 50, 50>>, <<0, 0, 0, 0>>}

ColumnCells(t, k) == [i \in 1..Len(t.rows) |-> t.rows[i][k]]

Init ==
    /\ NoScenario
    /\ pc = "start"
    /\ uploaded \in UploadedTables
    /\ row = EmptyRow /\ score = NaN
    /\ column = <<>> /\ ascending = TRUE /\ normalized = <<>>
    /\ sliders = DefaultSliders /\ weights = NoWeights
    /\ df = EmptyTable /\ scope = EmptyTable /\ filtered_df = EmptyTable
    /\ ranking_criteria = "" /\ error = "none"

\* main: load, clean the column names, fill the certifications, score
LoadAndScore ==
    /\ UNCHANGED scenario_vars
    /\ pc = "start"
    /\ df' = ScoredTable(uploaded)
    /\ pc' = "scored_table"
    /\ UNCHANGED <<uploaded, row, score, column, ascending, normalized, sliders,
                   weights, scope, filtered_df, ranking_criteria, error>>

\* main: "Buyer Requirements"
BuyerRequirements ==
    /\ UNCHANGED scenario_vars
    /\ pc = "scored_table"
    /\ \E s \in SliderSettings :
        LET w == buyer_weights(s)
            raised == \E i \in 1..4 : WeightList(w)[i].t = "err"
        IN  /\ sliders' = s
            /\ weights' = w
            /\ error' = IF raised THEN "ZeroDivisionError" ELSE "none"
            /\ pc' = IF raised THEN "error" ELSE "weights"
    /\ UNCHANGED <<uploaded, row, score, column, ascending, normalized,
                   df, scope, filtered_df, ranking_criteria>>

\* main: the sidebar filters, then the weighted score of the filtered rows
FilterAndWeigh ==
    /\ UNCHANGED scenario_vars
    /\ pc = "weights"
    /\ LET lead == ColumnCells(df, "lead_time_days")
           onboarding == ColumnCells(df, "onboarding_cost_usd")
           switching == ColumnCells(df, "switching_cost_usd")
       IN  \E industry_filter \in SUBSET {df.rows[i]["industry"] : i \in 1..Len(df.rows)},
              location_filter \in {{df.rows[i]["location"] : i \in 1..Len(df.rows)}},
              max_lead_time \in {ColExtreme(lead, FALSE).n, ColExtreme(lead, TRUE).n},
              max_onboarding_cost \in {ColExtreme(onboarding, TRUE).n},
              max_switching_cost \in {ColExtreme(switching, TRUE).n},
              cert_boxes \in {{}, {LowerCertKeys[i] : i \in 1..5}} :
                scope' = WithWeightedScore(
                            ApplyFilters(df,
                                [industry_filter |-> industry_filter,
                                 location_filter |-> location_filter,
                                 max_lead_time |-> max_lead_time,
                                 max_onboarding_cost |-> max_onboarding_cost,
                                 max_switching_cost |-> max_switching_cost,
                                 cert_boxes |-> cert_boxes]),
                            weights)
    /\ filtered_df' = scope'
    /\ pc' = "filtered"
    /\ UNCHANGED <<uploaded, row, score, column, ascending, normalized, sliders,
                   weights, df, ranking_criteria, error>>

RankBy(criteria) ==
    /\ UNCHANGED scenario_vars
    /\ pc = "filtered"
    /\ ranking_criteria' = criteria
    /\ \E o \in apply_ranking(scope, criteria) :
          /\ filtered_df' = o.table
          /\ error' = o.error
          /\ pc' = IF o.error = "none" THEN "ranked" ELSE "error"
    /\ UNCHANGED <<uploaded, row, score, column, ascending, normalized, sliders,
                   weights, df, scope>>

\* main: "Ranking Options" and "Apply ranking"
Rank == \E criteria \in RankingOptions : RankBy(criteria)

Next == LoadAndScore \/ BuyerRequirements \/ FilterAndWeigh \/ Rank

Spec == Init /\ [][Next]_vars

-----------------------------------------------------------------------------
(* The ranking step applied to a scope and a criterion of the caller *)

RankingCriteria == RankingOptions \cup {"Price (Low to High)"}

InitRank ==
    /\ NoScenario
    /\ pc = "filtered"
    /\ row = EmptyRow /\ score = NaN
    /\ column = <<>> /\ ascending = TRUE /\ normalized = <<>>
    /\ sliders = DefaultSliders /\ weights = buyer_weights(DefaultSliders)
    /\ ranking_criteria = "" /\ error = "none"
    /\ uploaded \in UploadedTables
    /\ df = ScoredTable(uploaded)
    /\ \E cert_boxes \in {{}, {LowerCertKeys[i] : i \in 1..5}} :
          scope = WithWeightedScore(
                     ApplyFilters(df,
                        [industry_filter |-> {"Food"}, location_filter |-> {"Asia"},
                         max_lead_time |-> 20, max_onboarding_cost |-> 25000,
                         max_switching_cost |-> 10000, cert_boxes |-> cert_boxes]),
                     weights)
    /\ filtered_df = scope

RankAny == \E criteria \in RankingCriteria : RankBy(criteria)

NextRank == RankAny

SpecRank == InitRank /\ [][NextRank]_vars

-----------------------------------------------------------------------------
(* scoring.py: the fixed-weight formula and calculate_scores *)

default_weights ==
    [carbon |-> Rat(25, 100), recycling |-> Rat(15, 100), energy |-> Rat(15, 100),
     water |-> Rat(15, 100), waste |-> Rat(15, 100), certifications |-> Rat(15, 100)]

\* round(x, 2): the nearest hundredth, a tie going to the even one; NaN stays NaN.
round2(x) ==
    IF x.t = "err" \/ x.t = "str" THEN Err
    ELSE IF x.t = "nan" THEN NaN
    ELSE LET q == (x.n * 100) \div x.d
             rem == x.n * 100 - q * x.d
             up == 2 * rem > x.d \/ (2 * rem = x.d /\ q % 2 = 1)
         IN  Rat(IF up THEN q + 1 ELSE q, 100)

cert_cols == <<"ISO_14001", "Fair_Trade", "Organic", "B_Corp", "Rainforest_Alliance">>

scoring_calculate_sustainability_score_water1000(r, w) ==
    LET normalized_carbon == Sub(Num(1), PyDiv(Get(r, "carbon_footprint"), Num(1000)))
        normalized_recycling == PyDiv(Get(r, "recycling_rate"), Num(100))
        normalized_energy == PyDiv(Get(r, "energy_efficiency"), Num(100))
        normalized_water == Sub(Num(1), PyDiv(Get(r, "water_usage"), Num(1000)))
        normalized_waste == Sub(Num(1), PyDiv(Get(r, "waste_production"), Num(500)))
        cert_score ==
            PyDiv(Add(Add(Add(Add(Add(Num(0), Get(r, cert_cols[1])), Get(r, cert_cols[2])),
                              Get(r, cert_cols[3])), Get(r, cert_cols[4])),
                      Get(r, cert_cols[5])),
                  Num(Len(cert_cols)))
        total ==
            Add(Add(Add(Add(Add(Mul(w.carbon, normalized_carbon),
                                Mul(w.recycling, normalized_recycling)),
                            Mul(w.energy, normalized_energy)),
                        Mul(w.water, normalized_water)),
                    Mul(w.waste, normalized_waste)),
                Mul(w.certifications, cert_score))
    IN  round2(Mul(total, Num(100)))

\* scoring.calculate_sustainability_score(row, weights); "err" is the exception
\* the expression raises (there is no try)
scoring_calculate_sustainability_score(r, w) ==
    LET normalized_carbon == Sub(Num(1), PyDiv(Get(r, "carbon_footprint"), Num(1000)))
        normalized_recycling == PyDiv(Get(r, "recycling_rate"), Num(100))
        normalized_energy == PyDiv(Get(r, "energy_efficiency"), Num(100))
        normalized_water == Sub(Num(1), PyDiv(Get(r, "water_usage"), Num(10000)))
        normalized_waste == Sub(Num(1), PyDiv(Get(r, "waste_production"), Num(500)))
        cert_score ==
            PyDiv(Add(Add(Add(Add(Add(Num(0), Get(r, cert_cols[1])), Get(r, cert_cols[2])),
                              Get(r, cert_cols[3])), Get(r, cert_cols[4])),
                      Get(r, cert_cols[5])),
                  Num(Len(cert_cols)))
        total ==
            Add(Add(Add(Add(Add(Mul(w.carbon, normalized_carbon),
                                Mul(w.recycling, normalized_recycling)),
                            Mul(w.energy, normalized_energy)),
                        Mul(w.water, normalized_water)),
                    Mul(w.waste, normalized_waste)),
                Mul(w.certifications, cert_score))
    IN  round2(Mul(total, Num(100)))

\* The fields the formula reads, in the order it reads them
ReferencedKeys ==
    <<"carbon_footprint", "recycling_rate", "energy_efficiency", "water_usage",
      "waste_production">> \o cert_cols

\* The exception the formula raises on r: KeyError for the first field that is
\* absent, TypeError for the first that is a str, whichever is read first.
RaisedBy(r) ==
    LET bad == {i \in 1..Len(ReferencedKeys) :
                    ReferencedKeys[i] \notin DOMAIN r \/ r[ReferencedKeys[i]].t = "str"}
        first == CHOOSE i \in bad : \A j \in bad : i <= j
    IN  IF bad = {} THEN "none"
        ELSE IF ReferencedKeys[first] \notin DOMAIN r THEN "KeyError" ELSE "TypeError"

\* scoring.calculate_scores(df, weights): the outcomes, each with the caller's
\* table as the call leaves it and the table returned.  df.apply stops at the
\* first row that raises, before the column is assigned.
calculate_scores(d, w) ==
    LET cells == [i \in 1..Len(d.rows) |-> scoring_calculate_sustainability_score(d.rows[i], w)]
        raising == {i \in 1..Len(d.rows) : cells[i].t = "err"}
        first == CHOOSE i \in raising : \A j \in raising : i <= j
        scored == WithColumn(d, "sustainability_score", cells)
    IN  IF raising # {}
        THEN {[error |-> RaisedBy(d.rows[first]), df |-> d, returned |-> EmptyTable]}
        ELSE {[error |-> o.error, df |-> scored, returned |-> o.table] :
                o \in sort_values(scored, "sustainability_score", FALSE)}

\* Input metrics of the fixed-weight formula: level * top \div MaxLevel
FixedTop(k) ==
    CASE k = "carbon_footprint" -> 1200
      [] k = "recycling_rate" -> 100
      [] k = "energy_efficiency" -> 100
      [] k = "water_usage" -> 9996
      [] k = "waste_production" -> 500

FixedRecord(m, c) ==
    [k \in MetricKeys \cup CertKeys |->
        IF k \in MetricKeys THEN Num((m[k] * FixedTop(k)) \div MaxLevel) ELSE Num(c[k])]

\* The best and the worst record of the data model's ranges
BestRecord ==
    [k \in MetricKeys \cup CertKeys |->
        CASE k \in {"recycling_rate", "energy_efficiency"} -> Num(100)
          [] k \in CertKeys -> Num(1)
          [] OTHER -> Num(0)]

WorstRecord ==
    [k \in MetricKeys \cup CertKeys |->
        CASE k = "carbon_footprint" -> Num(1000)
          [] k = "water_usage" -> Num(10000)
          [] k = "waste_production" -> Num(500)
          [] OTHER -> Num(0)]

\* Weights a caller passes: the defaults, or carbon-heavy ones
CallerWeights ==
    {default_weights,
     [carbon |-> Rat(50, 100), recycling |-> Rat(10, 100), energy |-> Rat(10, 100),
      water |-> Rat(10, 100), waste |-> Rat(10, 100), certifications |-> Rat(10, 100)]}

\* The formula applied to one record
InitFixed ==
    /\ NoScenario
    /\ pc = "fixed_record"
    /\ column = <<>> /\ ascending = TRUE /\ normalized = <<>>
    /\ sliders = DefaultSliders
    /\ df = EmptyTable /\ scope = EmptyTable /\ filtered_df = EmptyTable
    /\ ranking_criteria = "" /\ error = "none" /\ uploaded = EmptyTable
    /\ score = NaN
    /\ weights \in CallerWeights
    /\ \/ row \in {BestRecord, WorstRecord}
       \/ \E m \in [MetricKeys -> 0..MaxLevel] :
             \/ \E c \in [CertKeys -> {0, 1}] : row = FixedRecord(m, c)
             \/ \E k \in CertKeys, flag \in {0, 1} :
                   row = Spoil(FixedRecord(m, [x \in CertKeys |-> flag]), k, "absent")

ApplyFixedScore ==
    /\ pc = "fixed_record"
    /\ LET s == scoring_calculate_sustainability_score(row, weights)
       IN  /\ score' = s
           /\ error' = IF s.t = "err" THEN RaisedBy(row) ELSE "none"
           /\ pc' = IF s.t = "err" THEN "fixed_raised" ELSE "fixed_scored"
    /\ UNCHANGED <<row, column, ascending, normalized, sliders, weights,
                   df, scope, filtered_df, ranking_criteria, uploaded>>
    /\ UNCHANGED scenario_vars

NextFixed == ApplyFixedScore

SpecFixed == InitFixed /\ [][NextFixed]_vars

\* A row of a batch: v picks the carbon footprint and whether the flags are set
BatchRow(v) ==
    [k \in MetricKeys \cup CertKeys |->
        CASE k = "carbon_footprint" -> Num((v.carbon * FixedTop(k)) \div MaxLevel)
          [] k = "recycling_rate" -> Num(50)
          [] k = "energy_efficiency" -> Num(60)
          [] k = "water_usage" -> Num(3000)
          [] k = "waste_production" -> Num(100)
          [] OTHER -> Num(v.flags)]

BatchChoices == [carbon : 0..MaxLevel, flags : {0, 1}]

BatchTables ==
    {[cols |-> MetricKeys \cup CertKeys, rows |-> [i \in 1..Len(vs) |-> BatchRow(vs[i])]] :
        vs \in UNION {[1..n -> BatchChoices] : n \in 1..MaxRows}}

\* The fields of a batch that are made bad
SpoiledKeys == {"carbon_footprint", "recycling_rate", "ISO_14001"}

\* One cell of one row missing (NaN) or non-numeric
SpoilCell(t, i, k, kind) ==
    [cols |-> t.cols, rows |-> [t.rows EXCEPT ![i] = Spoil(t.rows[i], k, kind)]]

\* A column the table does not have
DropColumn(t, k) ==
    [cols |-> t.cols \ {k},
     rows |-> [i \in 1..Len(t.rows) |-> Spoil(t.rows[i], k, "absent")]]

\* calculate_scores applied to a table of the caller: uploaded keeps the table
\* as the caller built it, df is the table object handed to the call
InitBatch ==
    /\ NoScenario
    /\ pc = "batch"
    /\ row = EmptyRow /\ score = NaN
    /\ column = <<>> /\ ascending = TRUE /\ normalized = <<>>
    /\ sliders = DefaultSliders
    /\ scope = EmptyTable /\ filtered_df = EmptyTable
    /\ ranking_criteria = "" /\ error = "none"
    /\ weights \in CallerWeights
    /\ \E t \in BatchTables :
          \/ uploaded = t
          \/ \E i \in 1..Len(t.rows), k \in SpoiledKeys, kind \in {"nan", "str"} :
                uploaded = SpoilCell(t, i, k, kind)
          \/ \E k \in SpoiledKeys : uploaded = DropColumn(t, k)
    /\ df = uploaded

CalculateScores ==
    /\ pc = "batch"
    /\ \E o \in calculate_scores(df, weights) :
          /\ df' = o.df
          /\ returned' = o.returned
          /\ error' = o.error
          /\ pc' = IF o.error = "none" THEN "batch_scored" ELSE "batch_raised"
    /\ UNCHANGED <<row, score, column, ascending, normalized, sliders, weights,
                   scope, filtered_df, ranking_criteria, uploaded>>
    /\ UNCHANGED <<current, alternative, impact_diff, improvements, declines>>

NextBatch == CalculateScores

SpecBatch == InitBatch /\ [][NextBatch]_vars

-----------------------------------------------------------------------------
(* The scenario tab: two suppliers of filtered_df compared *)

\* The keys of impact_diff in the order of the dict, and the column of each
ImpactLabels ==
    <<"Carbon Footprint", "Water Usage", "Waste Production",
      "Recycling Rate", "Energy Efficiency">>

ImpactColumn(label) ==
    CASE label = "Carbon Footprint" -> "carbon_footprint"
      [] label = "Water Usage" -> "water_usage"
      [] label = "Waste Production" -> "waste_production"
      [] label = "Recycling Rate" -> "recycling_rate"
      [] label = "Energy Efficiency" -> "energy_efficiency"

impact_differences_swapped(cur, alt) ==
    [label \in {ImpactLabels[i] : i \in 1..Len(ImpactLabels)} |->
        Sub(Get(cur, ImpactColumn(label)), Get(alt, ImpactColumn(label)))]

\* impact_diff = {...}
impact_differences(cur, alt) ==
    [label \in {ImpactLabels[i] : i \in 1..Len(ImpactLabels)} |->
        Sub(Get(alt, ImpactColumn(label)), Get(cur, ImpactColumn(label)))]

\* abs(diff)
PyAbs(x) == IF IsNum(x) THEN Rat(Abs(x.n), x.d) ELSE x

\* One line of a list: f"{metric}: {amount:.2f} {word}"
ImpactLine(metric, amount, word) ==
    [metric |-> metric, amount |-> round2(amount), word |-> word]

RECURSIVE ImpactLines_strict(_, _, _)
ImpactLines_strict(diffs, n, want) ==
    IF n = 0 THEN <<>>
    ELSE LET metric == ImpactLabels[n]
             diff == diffs[metric]
             rising == metric \in {"Recycling Rate", "Energy Efficiency"}
             better == IF rising THEN Gt(diff, Num(0)) ELSE Gt(Num(0), diff)
             worse == IF rising THEN Gt(Num(0), diff) ELSE Gt(diff, Num(0))
             line == IF rising
                     THEN IF better THEN ImpactLine(metric, diff, "increase")
                          ELSE ImpactLine(metric, PyAbs(diff), "decrease")
                     ELSE IF better THEN ImpactLine(metric, PyAbs(diff), "reduction")
                          ELSE ImpactLine(metric, diff, "increase")
         IN  ImpactLines_strict(diffs, n - 1, want)
                \o (IF (want /\ better) \/ (~want /\ worse) THEN <<line>> ELSE <<>>)

\* The improvements (want = TRUE) or the declines among the first n labels,
\* in the order of the loop over impact_diff.items()
RECURSIVE ImpactLines(_, _, _)
ImpactLines(diffs, n, want) ==
    IF n = 0 THEN <<>>
    ELSE LET metric == ImpactLabels[n]
             diff == diffs[metric]
             better == IF metric \in {"Recycling Rate", "Energy Efficiency"}
                       THEN Gt(diff, Num(0))
                       ELSE Gt(Num(0), diff)
             line == IF metric \in {"Recycling Rate", "Energy Efficiency"}
                     THEN IF better THEN ImpactLine(metric, diff, "increase")
                          ELSE ImpactLine(metric, PyAbs(diff), "decrease")
                     ELSE IF better THEN ImpactLine(metric, PyAbs(diff), "reduction")
                          ELSE ImpactLine(metric, diff, "increase")
         IN  ImpactLines(diffs, n - 1, want) \o (IF better = want THEN <<line>> ELSE <<>>)

\* filtered_df['name'].unique()
SupplierNames(t) == {t.rows[i]["name"] : i \in 1..Len(t.rows)}

\* filtered_df[filtered_df['name'] == name].iloc[0]
FirstNamed(t, name) ==
    t.rows[CHOOSE i \in 1..Len(t.rows) :
              /\ t.rows[i]["name"] = name
              /\ \A j \in 1..(i - 1) : t.rows[j]["name"] # name]

\* A row of the scenario's table: v picks which of two values each metric has
ScenarioRow(name, v) ==
    [k \in {"name"} \cup MetricKeys |->
        CASE k = "name" -> name
          [] k = "carbon_footprint" -> Num(IF v.carbon = 0 THEN 800 ELSE 200)
          [] k = "recycling_rate" -> Num(IF v.recycling = 0 THEN 20 ELSE 80)
          [] k = "energy_efficiency" -> Num(IF v.rest = 0 THEN 60 ELSE 90)
          [] k = "water_usage" -> Num(IF v.rest = 0 THEN 5000 ELSE 1000)
          [] k = "waste_production" -> Num(IF v.rest = 0 THEN 300 ELSE 50)]

ScenarioChoices == [carbon : {0, 1}, recycling : {0, 1}, rest : {0, 1}]

\* Tables of one row at least; with shared, every supplier has the same name
ScenarioTables ==
    {[cols |-> {"name"} \cup MetricKeys,
      rows |-> [i \in 1..Len(vs) |->
                  ScenarioRow(IF shared THEN "Supplier 1" ELSE "Supplier " \o ToString(i),
                              vs[i])]] :
        vs \in UNION {[1..n -> ScenarioChoices] : n \in 1..MaxRows}, shared \in BOOLEAN}

InitScenario ==
    /\ NoScenario
    /\ pc = "scenario"
    /\ row = EmptyRow /\ score = NaN
    /\ column = <<>> /\ ascending = TRUE /\ normalized = <<>>
    /\ sliders = DefaultSliders /\ weights = NoWeights
    /\ df = EmptyTable /\ scope = EmptyTable /\ uploaded = EmptyTable
    /\ ranking_criteria = "" /\ error = "none"
    /\ filtered_df \in ScenarioTables

\* main, tab4: the two selectboxes, the differences, the two lists
CompareScenario ==
    /\ pc = "scenario"
    /\ \E current_supplier \in SupplierNames(filtered_df),
          alternative_supplier \in SupplierNames(filtered_df) :
          LET cur == FirstNamed(filtered_df, current_supplier)
              alt == FirstNamed(filtered_df, alternative_supplier)
              diffs == impact_differences(cur, alt)
          IN  /\ current' = cur
              /\ alternative' = alt
              /\ impact_diff' = diffs
              /\ improvements' = ImpactLines(diffs, Len(ImpactLabels), TRUE)
              /\ declines' = ImpactLines(diffs, Len(ImpactLabels), FALSE)
    /\ pc' = "compared"
    /\ UNCHANGED <<row, score, column, ascending, normalized, sliders, weights,
                   df, scope, filtered_df, ranking_criteria, error, uploaded, returned>>

NextScenario == CompareScenario

SpecScenario == InitScenario /\ [][NextScenario]_vars

-----------------------------------------------------------------------------
(* Properties of the scoring function *)

MetricsNumeric(r) == \A k \in MetricKeys : k \in DOMAIN r /\ IsNum(r[k])

FlagsSet(r) == Cardinality({k \in CertKeys : k \in DOMAIN r /\ r[k] = Num(1)})

Max0(x) == IF x > 0 THEN x ELSE 0

\* The fixed-scale formula on integer metrics, in units of 1/600.
FixedScale600(r) ==
    Max0(10000 - 10 * r["carbon_footprint"].n)
    + 100 * r["recycling_rate"].n
    + 100 * r["energy_efficiency"].n
    + Max0(10000 - r["water_usage"].n)
    + Max0(10000 - 20 * r["waste_production"].n)
    + 500 * FlagsSet(r)

\* C1: for a record whose five metrics are present and numeric,
\* calculate_sustainability_score returns (max(0, 100 - carbon/10) + recycling +
\* energy + max(0, 100 - water/100) + max(0, 100 - waste/5) + 5 * flags set) / 6.
C1_FixedScaleAverage ==
    (pc = "scored" /\ MetricsNumeric(row)) =>
        /\ IsNum(score)
        /\ score.n * 600 = FixedScale600(row) * score.d

\* A record with a clamped carbon sub-score and three flags: 245/6.
C1_Witness ==
    /\ pc = "scored"
    /\ MetricsNumeric(row)
    /\ row["carbon_footprint"] = Num(1205)
    /\ row["recycling_rate"] = Num(50)
    /\ row["energy_efficiency"] = Num(100)
    /\ row["water_usage"] = Num(6000)
    /\ row["waste_production"] = Num(300)
    /\ FlagsSet(row) = 3
    /\ score = Rat(245, 6)

BadCell(r, k) == k \notin DOMAIN r \/ ~IsNum(r[k])

\* C10: a record with an absent or non-numeric metric scores exactly 0, and the
\* weighted score is 0 when sustainability_score or a commercial metric is
\* absent or non-numeric.
C10_DegradeToZero ==
    /\ (pc = "scored" /\ \E k \in MetricKeys : BadCell(row, k)) => score = Num(0)
    /\ (pc = "weighted" /\ \E k \in WeightedKeys : BadCell(row, k)) => score = Num(0)

\* The data model's ranges: the three footprints non-negative, the two rates
\* in 0..100, every flag 0 or 1.
InRange(r) ==
    /\ MetricsNumeric(r)
    /\ \A k \in {"carbon_footprint", "water_usage", "waste_production"} : Ge(r[k], Num(0))
    /\ \A k \in {"recycling_rate", "energy_efficiency"} : Ge(r[k], Num(0)) /\ Le(r[k], Num(100))
    /\ \A k \in CertKeys : k \in DOMAIN r /\ r[k] \in {Num(0), Num(1)}

Within(x, lo, hi) == Ge(x, Num(lo)) /\ Le(x, Num(hi))

\* C13: for a record within the data model's ranges the score is never
\* negative and never above 125, and the carbon, water and waste sub-scores lie
\* in [0, 100].
C13_ScoreBounded ==
    (pc = "scored" /\ InRange(row)) =>
        /\ Within(score, 0, 125)
        /\ Within(carbon_score(row), 0, 100)
        /\ Within(water_score(row), 0, 100)
        /\ Within(waste_score(row), 0, 100)

\* The three footprints beyond their clamps, nothing else: the score is 0.
C13_Witness ==
    /\ pc = "scored"
    /\ InRange(row)
    /\ row["carbon_footprint"] = Num(1205)
    /\ row["water_usage"] = Num(12000)
    /\ row["waste_production"] = Num(600)
    /\ carbon_score(row) = Num(0) /\ water_score(row) = Num(0) /\ waste_score(row) = Num(0)
    /\ score = Num(0)

\* C14 as stated: the score can exceed 100 within the data model's ranges.  The
\* score grows with every sub-score (C20), so it exceeds 100 somewhere only if
\* it does on the best record.
C14_ExceedsHundred ==
    (pc = "scored" /\ row = BestRecord) => Gt(score, Num(100))

\* C14 as amended: the score is not clamped at 100, yet within the data model's
\* ranges it is at most 87.5 = 525/6, the score of the best record.
C14_AtMostBestRecord ==
    (pc = "scored" /\ InRange(row)) =>
        /\ Le(score, Rat(175, 2))
        /\ row = BestRecord => score = Rat(175, 2)

C14_Witness ==
    /\ pc = "scored"
    /\ row = BestRecord
    /\ score = Rat(175, 2)

LowerIsBetter == {"carbon_footprint", "water_usage", "waste_production"}

\* C20: of two records equal in all fields but one metric, the one with the
\* lower carbon_footprint, water_usage or waste_production, or the higher
\* recycling_rate or energy_efficiency, or one more certification flag set,
\* has a score greater than or equal to the other's.
C20_DirectionConsistent ==
    (pc = "scored" /\ InRange(row)) =>
        /\ \A k \in MetricKeys, level \in 0..MaxLevel :
              LET other == [row EXCEPT ![k] = MetricCell(k, level)]
                  better == IF k \in LowerIsBetter
                            THEN Le(other[k], row[k]) ELSE Ge(other[k], row[k])
              IN  better => Ge(calculate_sustainability_score(other), score)
        /\ \A k \in CertKeys :
              row[k] = Num(0) =>
                  Ge(calculate_sustainability_score([row EXCEPT ![k] = Num(1)]), score)

\* A record that a lower carbon footprint scores strictly higher
C20_Witness ==
    /\ pc = "scored"
    /\ InRange(row)
    /\ row["carbon_footprint"] = MetricCell("carbon_footprint", 1)
    /\ Gt(calculate_sustainability_score([row EXCEPT !["carbon_footprint"] = Num(0)]), score)
    /\ Gt(score, calculate_sustainability_score(
                    [row EXCEPT !["carbon_footprint"] = MetricCell("carbon_footprint", MaxLevel)]))

-----------------------------------------------------------------------------
(* Properties of min-max normalization *)

CellSet == {column[i] : i \in 1..Len(column)}

IsColMin(i) == \A j \in 1..Len(column) : column[j].n >= column[i].n
IsColMax(i) == \A j \in 1..Len(column) : column[j].n <= column[i].n

\* C3: on a column with at least two distinct values, the minimum maps to 0 and
\* the maximum to 1 when ascending (1 and 0 when not), and every element maps
\* into [0, 1].
C3_MinMaxEndpoints ==
    (pc = "normalized" /\ Cardinality(CellSet) >= 2) =>
        \A i \in 1..Len(column) :
            /\ IsNum(normalized[i])
            /\ 0 <= normalized[i].n /\ normalized[i].n <= normalized[i].d
            /\ IsColMin(i) => normalized[i] = Num(IF ascending THEN 0 ELSE 1)
            /\ IsColMax(i) => normalized[i] = Num(IF ascending THEN 1 ELSE 0)

C3_Witness ==
    /\ pc = "normalized"
    /\ column = <<Num(1), Num(3), Num(2)>>
    /\ ~ascending
    /\ normalized = <<Num(1), Num(0), Rat(1, 2)>>

\* C4: on a column whose maximum equals its minimum, every element normalizes
\* to exactly 0.5, in both directions.
C4_DegenerateIsHalf ==
    (pc = "normalized" /\ Cardinality(CellSet) = 1) =>
        \A i \in 1..Len(column) : normalized[i] = Rat(1, 2)

-----------------------------------------------------------------------------
(* Properties of the buyer weights *)

SliderTotal == sliders[1] + sliders[2] + sliders[3] + sliders[4]

\* C5: when the four weights total T, T positive and not 1, the weights used
\* for scoring sum to 1 and each is its original value divided by T.
C5_Renormalized ==
    (pc = "weights_set" /\ SliderTotal > 0 /\ SliderTotal # 100) =>
        /\ error = "none"
        /\ \A i \in 1..4 : WeightList(weights)[i] = Rat(sliders[i], SliderTotal)
        /\ Add(Add(Add(weights.sustainability, weights.lead_time),
                   weights.onboarding_cost), weights.switching_cost) = Num(1)

C5_Witness ==
    /\ pc = "weights_set"
    /\ sliders = <<50, 50, 50, 50>>
    /\ \A i \in 1..4 : WeightList(weights)[i] = Rat(1, 4)

\* C16: when the four weights already sum to 1 (sliders 50/25/15/10) every
\* weight is left as it is; with all four sliders at 50 every weight is 0.25.
C16_UnitTotalUnchanged ==
    (pc = "weights_set") =>
        /\ SliderTotal = 100 =>
              /\ error = "none"
              /\ \A i \in 1..4 : WeightList(weights)[i] = Rat(sliders[i], 100)
        /\ sliders = <<50, 50, 50, 50>> =>
              \A i \in 1..4 : WeightList(weights)[i] = Rat(1, 4)

C16_Witness ==
    /\ pc = "weights_set"
    /\ sliders = DefaultSliders
    /\ WeightList(weights) = <<Rat(1, 2), Rat(1, 4), Rat(3, 20), Rat(1, 10)>>

-----------------------------------------------------------------------------
(* Properties of the weighted score and of the ranking *)

\* Ascending min-max normalization of x against the column k of the whole
\* scope, 0.5 when the column is constant.
ScopeNorm(x, k) ==
    LET col == ColumnCells(scope, k)
        mn == ColExtreme(col, FALSE)
        mx == ColExtreme(col, TRUE)
    IN  IF mx = mn THEN Rat(1, 2) ELSE PyDiv(Sub(x, mn), Sub(mx, mn))

ScopeWeightedScore(r) ==
    Add(Add(Add(Mul(weights.sustainability, PyDiv(r["sustainability_score"], Num(100))),
                Mul(weights.lead_time,
                    Sub(Num(1), ScopeNorm(r["lead_time_days"], "lead_time_days")))),
            Mul(weights.onboarding_cost,
                Sub(Num(1), ScopeNorm(r["onboarding_cost_usd"], "onboarding_cost_usd")))),
        Mul(weights.switching_cost,
            Sub(Num(1), ScopeNorm(r["switching_cost_usd"], "switching_cost_usd"))))

\* C2: every record of a non-empty scope has weighted_score =
\* w_sustain * (sustainability_score / 100) + w_lead * (1 - norm(lead_time_days))
\* + w_onboard * (1 - norm(onboarding_cost_usd)) + w_switch * (1 - norm(switching_cost_usd)),
\* norm being min-max over the whole scope.
C2_WeightedOverScope ==
    (pc \in {"filtered", "ranked"} /\ scope.rows # <<>>) =>
        \A i \in 1..Len(scope.rows) :
            scope.rows[i]["weighted_score"] = ScopeWeightedScore(scope.rows[i])

SortKey(criteria) ==
    CASE criteria = "Weighted Score (Buyer Requirements)" -> "weighted_score"
      [] criteria = "Sustainability Score" -> "sustainability_score"
      [] criteria = "Carbon Footprint (Low to High)" -> "carbon_footprint"
      [] criteria = "Recycling Rate (High to Low)" -> "recycling_rate"
      [] criteria = "Energy Efficiency (High to Low)" -> "energy_efficiency"
      [] criteria = "Water Usage (Low to High)" -> "water_usage"
      [] criteria = "Waste Production (Low to High)" -> "waste_production"
      [] criteria = "Lead Time (Low to High)" -> "lead_time_days"
      [] criteria = "Onboarding Cost (Low to High)" -> "onboarding_cost_usd"
      [] criteria = "Switching Cost (Low to High)" -> "switching_cost_usd"

HighToLow ==
    {"Weighted Score (Buyer Requirements)", "Sustainability Score",
     "Recycling Rate (High to Low)", "Energy Efficiency (High to Low)"}

RankedKey(i) == filtered_df.rows[i][SortKey(ranking_criteria)]

\* C6: the ranked sequence is non-increasing in the chosen field for the four
\* high-to-low criteria and non-decreasing for the six low-to-high ones.
C6_OrderedByCriterion ==
    (pc = "ranked" /\ ranking_criteria \in RankingOptions) =>
        \A i \in 1..(Len(filtered_df.rows) - 1) :
            IF ranking_criteria \in HighToLow
            THEN Ge(RankedKey(i), RankedKey(i + 1))
            ELSE Ge(RankedKey(i + 1), RankedKey(i))

PlaceInScope(r) == CHOOSE i \in 1..Len(scope.rows) : scope.rows[i] = r

\* C7: two records with equal sort keys keep their relative order of the input.
C7_StableRanking ==
    (pc = "ranked" /\ ranking_criteria \in RankingOptions) =>
        \A i, j \in 1..Len(filtered_df.rows) :
            (i < j /\ IsNum(RankedKey(i)) /\ RankedKey(i) = RankedKey(j)) =>
                PlaceInScope(filtered_df.rows[i]) < PlaceInScope(filtered_df.rows[j])

\* C8: with an empty scope, the weighted-score step followed by ranking ends
\* without error in an empty sequence, whatever the criterion.
C8_EmptyScopeRanks ==
    (pc \in {"ranked", "error"} /\ ranking_criteria # "" /\ scope.rows = <<>>) =>
        /\ error = "none"
        /\ filtered_df.rows = <<>>

-----------------------------------------------------------------------------
(* Properties of the fixed-weight formula and of calculate_scores *)

Percent(x) == (x.n * 100) \div x.d

\* 10000 times the fixed-weight formula before rounding, on integer metrics
\* and weights that are whole percents.
FixedExact10000(r, w) ==
    Percent(w.carbon) * (1000 - r["carbon_footprint"].n) * 10
    + Percent(w.recycling) * r["recycling_rate"].n * 100
    + Percent(w.energy) * r["energy_efficiency"].n * 100
    + Percent(w.water) * (10000 - r["water_usage"].n)
    + Percent(w.waste) * (500 - r["waste_production"].n) * 20
    + Percent(w.certifications) * FlagsSet(r) * 2000

AllReferencedNumeric(r) ==
    \A i \in 1..Len(ReferencedKeys) : ~BadCell(r, ReferencedKeys[i])

\* C15: scoring.calculate_sustainability_score returns 100 * (w_carbon * (1 -
\* carbon/1000) + w_recycling * recycling/100 + w_energy * energy/100 + w_water *
\* (1 - water/10000) + w_waste * (1 - waste/500) + w_certifications * flags/5)
\* rounded to 2 decimals: a whole number of hundredths within half a hundredth
\* of the exact value; with the default weights the best record scores 100 and
\* the worst 0.
C15_FixedWeightFormula ==
    (pc \in {"fixed_scored", "fixed_raised"} /\ AllReferencedNumeric(row)) =>
        /\ pc = "fixed_scored"
        /\ IsNum(score)
        /\ 100 % score.d = 0
        /\ 2 * Abs(score.n * 10000 - FixedExact10000(row, weights) * score.d) <= 100 * score.d
        /\ (weights = default_weights /\ row = BestRecord) => score = Num(100)
        /\ (weights = default_weights /\ row = WorstRecord) => score = Num(0)

\* A record whose exact value, 46.003, is not a whole number of hundredths.
C15_Witness ==
    /\ pc = "fixed_scored"
    /\ weights = default_weights
    /\ row["carbon_footprint"] = Num(600)
    /\ row["recycling_rate"] = Num(50)
    /\ row["energy_efficiency"] = Num(50)
    /\ row["water_usage"] = Num(4998)
    /\ row["waste_production"] = Num(250)
    /\ FlagsSet(row) = 2
    /\ AllReferencedNumeric(row)
    /\ score = Num(46)

\* The record with every absent certification flag present and 0
FlagsDefaulted(r) ==
    [k \in (DOMAIN r) \cup CertKeys |-> IF k \in DOMAIN r THEN r[k] ELSE Num(0)]

\* C17: a record with a certification flag absent scores what the same record
\* scores with that flag present and 0, and no error is raised (fixed-weight
\* formula).
C17_AbsentFlagIsZero ==
    (pc \in {"fixed_scored", "fixed_raised"} /\ \E k \in CertKeys : k \notin DOMAIN row) =>
        /\ error = "none"
        /\ score = scoring_calculate_sustainability_score(FlagsDefaulted(row), weights)

BadRecord(r) == ~AllReferencedNumeric(r)

\* The row of the returned table that is row i of the caller's table
ReturnedRow(i) ==
    CHOOSE j \in 1..Len(returned.rows) :
        \A k \in DOMAIN uploaded.rows[i] : returned.rows[j][k] = uploaded.rows[i][k]

\* C11: when a record of the batch has an absent or non-numeric referenced
\* field, calculate_scores raises nothing, that record's score is 0 and every
\* other record has its score.
C11_BatchDegradesToZero ==
    (pc \in {"batch_scored", "batch_raised"}
        /\ \E i \in 1..Len(uploaded.rows) : BadRecord(uploaded.rows[i])) =>
        /\ error = "none"
        /\ Len(returned.rows) = Len(uploaded.rows)
        /\ \A i \in 1..Len(uploaded.rows) :
              returned.rows[ReturnedRow(i)]["sustainability_score"] =
                  IF BadRecord(uploaded.rows[i]) THEN Num(0)
                  ELSE scoring_calculate_sustainability_score(uploaded.rows[i], weights)

\* C18: after calculate_scores returns, the caller's table has the columns,
\* values and row order it had before the call.
C18_InputUnchanged ==
    (pc = "batch_scored") => df = uploaded

-----------------------------------------------------------------------------
(* Properties of the scenario comparison *)

Listed(lines) == {lines[i].metric : i \in 1..Len(lines)}

\* C12: each of the five differences is alternative - current; recycling and
\* energy are improvements when the difference is positive, carbon, water and
\* waste when it is negative; for a = {800, 20, 60, 5000, 300} and b = {200, 80,
\* 90, 1000, 50} (carbon, recycling, energy, water, waste) all five are
\* improvements, the carbon difference being -600 and the recycling one +60.
C12_ScenarioDelta ==
    (pc = "compared") =>
        /\ \A i \in 1..Len(ImpactLabels) :
              LET metric == ImpactLabels[i]
                  delta == alternative[ImpactColumn(metric)].n - current[ImpactColumn(metric)].n
              IN  /\ impact_diff[metric] = Num(delta)
                  /\ metric \in Listed(improvements) <=>
                        IF metric \in {"Recycling Rate", "Energy Efficiency"}
                        THEN delta > 0 ELSE delta < 0
        /\ (/\ current["carbon_footprint"] = Num(800) /\ alternative["carbon_footprint"] = Num(200)
            /\ current["recycling_rate"] = Num(20) /\ alternative["recycling_rate"] = Num(80)
            /\ current["energy_efficiency"] = Num(60) /\ alternative["energy_efficiency"] = Num(90)
            /\ current["water_usage"] = Num(5000) /\ alternative["water_usage"] = Num(1000)
            /\ current["waste_production"] = Num(300) /\ alternative["waste_production"] = Num(50)) =>
                /\ Listed(improvements) = {ImpactLabels[i] : i \in 1..Len(ImpactLabels)}
                /\ impact_diff["Carbon Footprint"] = Num(-600)
                /\ impact_diff["Recycling Rate"] = Num(60)

\* The spec's records A and B compared, all five metrics improved
C12_Witness ==
    /\ pc = "compared"
    /\ current["carbon_footprint"] = Num(800) /\ alternative["carbon_footprint"] = Num(200)
    /\ current["recycling_rate"] = Num(20) /\ alternative["recycling_rate"] = Num(80)
    /\ current["energy_efficiency"] = Num(60) /\ alternative["energy_efficiency"] = Num(90)
    /\ current["water_usage"] = Num(5000) /\ alternative["water_usage"] = Num(1000)
    /\ current["waste_production"] = Num(300) /\ alternative["waste_production"] = Num(50)
    /\ Len(improvements) = 5 /\ declines = <<>>
    /\ impact_diff["Carbon Footprint"] = Num(-600)

-----------------------------------------------------------------------------
(* Properties of the pipeline's certification flags, of the zero weights, of
   ranking as a reordering and of the two lists of the scenario *)

\* The uploaded table with every certification flag set to 0
FlagsCleared(t) ==
    [cols |-> t.cols,
     rows |-> [i \in 1..Len(t.rows) |->
                 [k \in t.cols |-> IF k \in CertKeys THEN Num(0) ELSE t.rows[i][k]]]]

\* C21: through the pipeline a supplier with k certification flags set scores
\* 5k/6 more than the otherwise identical supplier with no flag set.
C21_FlagsReachScore ==
    (pc = "scored_table") =>
        \A i \in 1..Len(uploaded.rows) :
            Sub(df.rows[i]["sustainability_score"],
                ScoredTable(FlagsCleared(uploaded)).rows[i]["sustainability_score"])
                = Rat(5 * FlagsSet(uploaded.rows[i]), 6)

\* C22: for every setting of the four sliders, all four at 0 included, the
\* weight step ends without error in four non-negative weights that sum to 1.
C22_WeightsAlwaysPrepared ==
    (pc = "weights_set") =>
        /\ error = "none"
        /\ \A i \in 1..4 : Ge(WeightList(weights)[i], Num(0))
        /\ Add(Add(Add(weights.sustainability, weights.lead_time),
                   weights.onboarding_cost), weights.switching_cost) = Num(1)

\* rows is a reordering of the records of scope, none dropped, none doubled,
\* none changed
Reordered(rows) ==
    /\ Len(rows) = Len(scope.rows)
    /\ \E p \in Perms(Len(rows)) : \A i \in 1..Len(rows) : rows[i] = scope.rows[p[i]]

\* C23: for a non-empty scope and a supported criterion the ranked output is a
\* permutation of the input records, with every field value as it was.
C23_RankingOnlyReorders ==
    (pc \in {"ranked", "error"} /\ ranking_criteria \in RankingOptions /\ scope.rows # <<>>) =>
        /\ pc = "ranked"
        /\ filtered_df.cols = scope.cols
        /\ Reordered(filtered_df.rows)

\* Two suppliers that ranking by carbon footprint has swapped
C23_Witness ==
    /\ pc = "ranked"
    /\ ranking_criteria = "Carbon Footprint (Low to High)"
    /\ Len(scope.rows) = 2
    /\ filtered_df.rows = <<scope.rows[2], scope.rows[1]>>
    /\ scope.rows[1] # scope.rows[2]

Occurrences(lines, metric) == Cardinality({i \in 1..Len(lines) : lines[i].metric = metric})

\* C24: each of the five metrics is in exactly one of the two lists, a
\* difference of zero is in declines, and a supplier compared with itself has
\* five declines and no improvement.
C24_ExactlyOneList ==
    (pc = "compared") =>
        /\ \A i \in 1..Len(ImpactLabels) :
              LET metric == ImpactLabels[i]
              IN  /\ Occurrences(improvements, metric) + Occurrences(declines, metric) = 1
                  /\ impact_diff[metric] = Num(0) => Occurrences(declines, metric) = 1
        /\ current = alternative => (Len(declines) = 5 /\ improvements = <<>>)

\* A supplier compared with itself
C24_Witness ==
    /\ pc = "compared"
    /\ current = alternative
    /\ \A i \in 1..Len(ImpactLabels) : impact_diff[ImpactLabels[i]] = Num(0)
    /\ Listed(declines) = {ImpactLabels[i] : i \in 1..Len(ImpactLabels)}
    /\ improvements = <<>>

====
